---- MODULE Spec2Model ----
(***************************************************************************)
(* The trace instrumentation engine of parea/trace_utils/trace.py: the     *)
(* context stack (trace_context), the record store (trace_data), the       *)
(* traceable wrapper (init_trace / body / cleanup_trace) run by several    *)
(* lineages (threads or cooperative tasks), and the logging threads that   *)
(* cleanup_trace starts on parea_logger.record_log.                        *)
(*                                                                         *)
(* trace_context and trace_data are ContextVars created with a mutable     *)
(* default ([] and {}) and the code never calls .set() on them, so .get()  *)
(* returns the one default object in every context: in a new thread, and   *)
(* in a task whose context is a copy of its parent's.  The model therefore *)
(* has one list and one dict, which every lineage reads and mutates.       *)
(*                                                                         *)
(* A traced call takes three steps: init_trace; the end of the wrapped     *)
(* body together with the rest of the try statement (recording the result, *)
(* the except clause, cleanup_trace in the finally clause); the return to  *)
(* the caller.  A cooperative task switches only at an await, which lies   *)
(* inside the wrapped body, so every interleaving of these steps is one    *)
(* that both threads and tasks with suspending bodies produce.             *)
(* Thread.start() is taken to succeed.                                     *)
(*                                                                         *)
(* Around the wrapper: merge and trace_insert on the record at the top of  *)
(* the stack; a call graph run through wrapper and through async_wrapper,  *)
(* each translated from its own statements; HTTPClient.request and         *)
(* request_async under retry_on_502; Parea.completion and acompletion,     *)
(* which read the top of the stack.  Each has a specification of its own.  *)
(***************************************************************************)
EXTENDS Integers, Sequences, FiniteSets, TLC

\* independent lineages: threads, or tasks not spawned from one another
NumThreads == 2
\* child lineages: tasks spawned from the body of a traced call
NumTasks == 2
\* traced calls made in all: by concurrent threads, by a lineage with the
\* tasks it spawns, and by a lineage alone
MaxSpans == 2
MaxTaskSpans == 3
MaxSpansAlone == 4
\* nesting of traced calls within a lineage
MaxDepth == 3

Threads == 1..NumThreads
Tasks == (NumThreads + 1)..(NumThreads + NumTasks)
Lineages == Threads \cup Tasks
Largest(a, b) == IF a > b THEN a ELSE b
TraceIds == 1..Largest(MaxSpans, Largest(MaxTaskSpans, MaxSpansAlone))

\* Python None where a trace_id is expected
None == 0
\* unset end_timestamp / output of a TraceLog
NoneStr == "None"

VARIABLES
  trace_context,  \* the default list of the ContextVar: the stack of trace_ids
  trace_data,     \* the default dict of the ContextVar: trace_id -> TraceLog
  nextId,         \* the next fresh uuid4
  frames,         \* per lineage, the Python frames of its active wrappers
  lstate,         \* per lineage: "idle", "ready" (spawned), "active", "done"
  spawnedBy,      \* per lineage: the span whose body spawned it, or None
  logThreads,     \* per trace_id: the logging thread started for it
  logErrors,      \* whether a logging thread has died of an exception
  spans,          \* per trace_id: who called it, and what its body called
  returned,       \* the traced call that last came back to its caller
  decorator,      \* the metadata and tags given to @traceable
  inserted,       \* the trace_insert call made last, and how many were made
  merged,         \* a call of merge: its arguments and what it returned
  runs,           \* a call graph, run through wrapper and through async_wrapper
  http,           \* a call of HTTPClient.request / request_async
  sent            \* the completion call made last, and how many were made

\* the state of the operations around the wrapper
apiVars == <<decorator, inserted, merged, runs, http, sent>>

\* the state of the wrapper and the logging threads
traceVars == <<trace_context, trace_data, nextId, frames, lstate, spawnedBy,
               logThreads, logErrors, spans, returned>>

vars == <<trace_context, trace_data, nextId, frames, lstate, spawnedBy, logThreads,
          logErrors, spans, returned, apiVars>>

----------------------------------------------------------------------------
\* Values and errors

NoValue == [type |-> "none", val |-> 0]

\* what a wrapped body may return: a value json.dumps serializes (an int)
\* and one it does not (a set)
ReturnValues ==
  { [type |-> "int", val |-> 7],
    [type |-> "set", val |-> 7] }

\* an exception object raised by the body of span t; val is its identity
BodyErrors(t) ==
  { [type |-> "Exception", val |-> t],
    [type |-> "CancelledError", val |-> t] }

\* `except Exception` catches Exception subclasses, not BaseException
IsException(e) == e.type \in {"Exception", "TypeError"}

\* asdict(result) if isinstance(result, CompletionResponse) else result
Flatten(result) ==
  IF result.type = "CompletionResponse"
  THEN [type |-> "dict", val |-> result.val]
  ELSE result

\* json.dumps raises TypeError for an object that is not JSON serializable
Serializable(output) == output.type \in {"int", "dict"}

JsonDumps(output) ==
  IF output.type = "dict"
  THEN "{\"content\": " \o ToString(output.val) \o "}"
  ELSE ToString(output.val)

\* Python values that reach a TraceLog field: None, numbers, strings,
\* dicts (functions on a set of keys) and lists (sequences)
PyNone == [t |-> "none", v |-> 0]
PyInt(n) == [t |-> "int", v |-> n]
PyStr(str) == [t |-> "str", v |-> str]
PyDict(d) == [t |-> "dict", v |-> d]
PyList(seq) == [t |-> "list", v |-> seq]

\* the keys and values of metadata dicts, the elements of lists
Keys == {"internal", "tokens"}
Dicts == UNION {[K -> {1, 3}] : K \in SUBSET Keys}
Lists == {<<>>, <<1>>, <<3>>}
PyValues ==
  {PyNone, PyInt(0), PyInt(3), PyStr(""), PyStr("x")}
    \cup {PyDict(d) : d \in Dicts} \cup {PyList(seq) : seq \in Lists}

\* bool(value)
Truthy(value) ==
  CASE value.t = "none" -> FALSE
    [] value.t = "int" -> value.v # 0
    [] value.t = "str" -> value.v # ""
    [] value.t = "dict" -> DOMAIN value.v # {}
    [] value.t = "list" -> Len(value.v) > 0

\* @traceable: metadata and tags default to None
DefaultDecorator == [metadata |-> PyNone, tags |-> PyNone]

TraceLog(trace_id) ==
  [trace_id |-> trace_id, children |-> <<>>,
   end_timestamp |-> NoneStr, output |-> NoneStr,
   metadata |-> decorator.metadata, tags |-> decorator.tags]

----------------------------------------------------------------------------
\* Helpers on the state

Depth(l) == Len(frames[l])
Top(l) == frames[l][Depth(l)]
InPc(l, p) == Depth(l) > 0 /\ Top(l).pc = p

\* trace_context.get()[-1]
StackTop(stack) == stack[Len(stack)]

\* reading index -1, the new span itself, as the parent
ParentTraceIdOfTop(stack) ==
  IF Len(stack) > 1 THEN stack[Len(stack)] ELSE None

\* reading index 0, the root of the stack, as the parent
ParentTraceIdOfRoot(stack) ==
  IF Len(stack) > 1 THEN stack[1] ELSE None

\* trace_context.get()[-2] if len(trace_context.get()) > 1 else None
ParentTraceId(stack) ==
  IF Len(stack) > 1 THEN stack[Len(stack) - 1] ELSE None

\* list.pop()
Pop(stack) == SubSeq(stack, 1, Len(stack) - 1)

\* the child lineages spawned from the body of span t that still run
Outstanding(t) == {c \in Lineages : spawnedBy[c] = t /\ lstate[c] # "done"}

NoSpan == [lineage |-> 0, caller |-> None, depth |-> 0, calls |-> <<>>]

NoReturn ==
  [trace_id |-> None, body |-> NoValue, saw |-> NoValue, kind |-> "none",
   cleaned |-> FALSE]

\* no trace_insert call made yet
NoInsert ==
  [count |-> 0, lineage |-> 0, target |-> None, data |-> <<>>, error |-> "none"]

\* no call of merge
NoMerge == [old |-> PyNone, new |-> PyNone, out |-> PyNone, pc |-> "none"]

\* no call graph to run
NoRuns == [graph |-> <<>>, sync |-> <<>>, async |-> <<>>]

\* no HTTP call
NoCall ==
  [kind |-> "none", endpoint |-> "", pc |-> "none", retry |-> 0,
   statuses |-> <<>>, slept |-> 0, result |-> 0]

\* no completion call made yet
NoRequest ==
  [count |-> 0, lineage |-> 0, op |-> "none", error |-> "none",
   inference_id |-> None, trace_id |-> None, posted |-> FALSE]

\* the engine before any traced call
InitTrace ==
  /\ trace_context = <<>>
  /\ trace_data = <<>>
  /\ nextId = 1
  /\ frames = [l \in Lineages |-> <<>>]
  /\ lstate = [l \in Lineages |-> "idle"]
  /\ spawnedBy = [l \in Lineages |-> None]
  /\ logThreads = [t \in TraceIds |-> "none"]
  /\ logErrors = FALSE
  /\ spans = [t \in TraceIds |-> NoSpan]
  /\ returned = NoReturn
  /\ inserted = NoInsert
  /\ sent = NoRequest

Init ==
  /\ InitTrace
  /\ decorator = DefaultDecorator
  /\ merged = NoMerge
  /\ runs = NoRuns
  /\ http = NoCall

\* threads start, and tasks are spawned, in the order of their numbers
NextThread(c) ==
  c \in Threads /\ lstate[c] = "idle" /\ \A k \in Threads : k < c => lstate[k] # "idle"
NextTask(c) ==
  c \in Tasks /\ lstate[c] = "idle" /\ \A k \in Tasks : k < c => lstate[k] # "idle"

----------------------------------------------------------------------------
\* The wrapper (wrapper / async_wrapper), one action per statement group

\* the frame of a wrapper that has just run init_trace; pre is the stack the
\* call found, body the outcome of the wrapped body, caught the exception a
\* traced call made by the body raised into it, popped and post what
\* cleanup_trace popped and left
Frame(trace_id, pre) ==
  [trace_id |-> trace_id, pc |-> "body", result |-> NoValue, exc |-> NoValue,
   pre |-> pre, body |-> NoValue, caught |-> NoValue,
   popped |-> None, post |-> <<>>]

\* trace_id = init_trace(func.__name__, args, kwargs, func): a lineage calls
\* a traced function, from its top level or from the body of a traced call
init_trace(l, max_spans) ==
  LET trace_id == nextId
      stack == Append(trace_context, trace_id)
      stored == [t \in (DOMAIN trace_data) \cup {trace_id} |->
                   IF t = trace_id THEN TraceLog(trace_id) ELSE trace_data[t]]
      parent_trace_id == ParentTraceId(stack)
      caller == IF Depth(l) > 0 THEN Top(l).trace_id ELSE None
  IN /\ nextId <= max_spans
     /\ Depth(l) < MaxDepth
     /\ \/ Depth(l) = 0 /\ (NextThread(l) \/ lstate[l] = "ready")
        \/ InPc(l, "body") /\ Outstanding(Top(l).trace_id) = {}
     /\ nextId' = nextId + 1
     /\ trace_context' = stack
     /\ trace_data' =
          IF parent_trace_id # None
          THEN [stored EXCEPT ![parent_trace_id].children = Append(@, trace_id)]
          ELSE stored
     /\ frames' = [frames EXCEPT ![l] = Append(@, Frame(trace_id, trace_context))]
     /\ lstate' = [lstate EXCEPT ![l] = "active"]
     /\ spans' = [t \in TraceIds |->
          IF t = trace_id
          THEN [lineage |-> l, caller |-> caller, depth |-> Depth(l) + 1, calls |-> <<>>]
          ELSE IF t = caller
          THEN [spans[t] EXCEPT !.calls = Append(@, trace_id)]
          ELSE spans[t]]
     /\ UNCHANGED <<apiVars, spawnedBy, logThreads, logErrors, returned>>

\* the body of a traced call spawns a child lineage (a task) and later awaits
\* its spawned tasks together; the child's context is a copy of the spawner's
\* context, in which trace_context has no value of its own
Spawn(l, c) ==
  /\ InPc(l, "body")
  /\ NextTask(c)
  /\ lstate' = [lstate EXCEPT ![c] = "ready"]
  /\ spawnedBy' = [spawnedBy EXCEPT ![c] = Top(l).trace_id]
  /\ UNCHANGED <<apiVars, trace_context, trace_data, nextId, frames, logThreads, logErrors,
                 spans, returned>>

\* an except clause that raises an exception of its own in place of e
ExceptClauseWraps(e) == [type |-> "Exception", val |-> None]

\* the exception that leaves `except Exception as e: logger.exception(...);
\* raise e`
ExceptClause(e) == e

\* where an exception raised inside the try block goes: through the except
\* clause if it is an Exception, and in both cases on to the finally clause
Raised(f, e) ==
  [f EXCEPT !.exc = IF IsException(e) THEN ExceptClause(e) ELSE e]

\* a cleanup that hands over the record of the span at the top of the stack
cleanup_trace_top(trace_id) ==
  LET data == trace_data[StackTop(trace_context)]
  IN /\ logThreads' = [logThreads EXCEPT ![data.trace_id] = "started"]
     /\ trace_context' = Pop(trace_context)

\* a cleanup that runs record_log in the calling thread (run() for start())
cleanup_trace_inline(trace_id) ==
  /\ logThreads' = [logThreads EXCEPT ![trace_id] = "ended"]
  /\ trace_context' = Pop(trace_context)

\* cleanup_trace(trace_id): start the logging thread on the record stored
\* under trace_id, then trace_context.get().pop()
cleanup_trace(trace_id) ==
  LET data == trace_data[trace_id]
  IN /\ logThreads' = [logThreads EXCEPT ![data.trace_id] = "started"]
     /\ trace_context' = Pop(trace_context)

\* finally: cleanup_trace(trace_id), for the frame f as the try block left it
Finally(l, f) ==
  /\ cleanup_trace(f.trace_id)
  /\ frames' = [frames EXCEPT ![l][Depth(l)] =
       [f EXCEPT !.pc = "exit",
                 !.popped = StackTop(trace_context),
                 !.post = trace_context']]

\* result = func(*args, **kwargs) returns v, then
\* end_timestamp = to_date_and_time_string(end_time);
\* output = asdict(result) if ... else result; .output = json.dumps(output),
\* where json.dumps may raise; then the finally clause
BodyReturns(l, v) ==
  LET trace_id == Top(l).trace_id
      output == Flatten(v)
      f == [Top(l) EXCEPT !.result = v, !.body = v]
  IN /\ InPc(l, "body")
     /\ Outstanding(trace_id) = {}
     /\ IF Serializable(output)
        THEN /\ trace_data' = [trace_data EXCEPT
                  ![trace_id].end_timestamp = "ts",
                  ![trace_id].output = JsonDumps(output)]
             /\ Finally(l, f)
        ELSE /\ trace_data' = [trace_data EXCEPT ![trace_id].end_timestamp = "ts"]
             /\ Finally(l, Raised(f, [type |-> "TypeError", val |-> trace_id]))
     /\ UNCHANGED <<apiVars, nextId, lstate, spawnedBy, logErrors, spans, returned>>

\* result = func(*args, **kwargs) raises e: an error of the body's own, or
\* the one a traced call made by the body raised into it; then the except
\* and finally clauses
BodyRaises(l, e) ==
  /\ InPc(l, "body")
  /\ Outstanding(Top(l).trace_id) = {}
  /\ e \in BodyErrors(Top(l).trace_id) \cup ({Top(l).caught} \ {NoValue})
  /\ Finally(l, Raised([Top(l) EXCEPT !.body = e], e))
  /\ UNCHANGED <<apiVars, trace_data, nextId, lstate, spawnedBy, logErrors, spans, returned>>

\* what leaves the wrapper: the pending exception, else `return result`
Outcome(f) == IF f.exc # NoValue THEN f.exc ELSE f.result
OutcomeKind(f) == IF f.exc # NoValue THEN "raise" ELSE "return"

\* the wrapper returns to its caller, or its pending exception is raised
\* into the caller
WrapperExit(l) ==
  LET f == Top(l)
      d == Depth(l)
      rest == SubSeq(frames[l], 1, d - 1)
  IN /\ InPc(l, "exit")
     /\ frames' = [frames EXCEPT ![l] =
          IF d > 1 THEN [rest EXCEPT ![d - 1].caught = f.exc] ELSE rest]
     /\ lstate' = [lstate EXCEPT ![l] = IF d = 1 THEN "done" ELSE @]
     /\ returned' = [trace_id |-> f.trace_id, body |-> f.body,
                      saw |-> Outcome(f), kind |-> OutcomeKind(f),
                      cleaned |-> f.popped # None /\ logThreads[f.trace_id] # "none"]
     /\ UNCHANGED <<apiVars, trace_context, trace_data, nextId, spawnedBy, logThreads, logErrors, spans>>

\* the error of a failed request to the log sink
LogSinkError == [type |-> "HTTPStatusError", val |-> None]

\* a record_log whose failure is raised in the wrapper that handed the record
\* over, as it would be were record_log called in the finally clause itself
record_log_raises(t, ok) ==
  /\ logThreads[t] = "started"
  /\ logThreads' = [logThreads EXCEPT ![t] = "ended"]
  /\ logErrors' = (logErrors \/ ~ok)
  /\ frames' = [l \in Lineages |->
       IF ~ok /\ InPc(l, "exit") /\ Top(l).trace_id = t
       THEN [frames[l] EXCEPT ![Depth(l)].exc = LogSinkError]
       ELSE frames[l]]
  /\ UNCHANGED <<apiVars, trace_context, trace_data, nextId, lstate, spawnedBy, spans, returned>>

\* the logging thread runs parea_logger.record_log(data=record) and ends:
\* the request succeeds, or raises inside the logging thread
record_log(t, ok) ==
  /\ logThreads[t] = "started"
  /\ logThreads' = [logThreads EXCEPT ![t] = "ended"]
  /\ logErrors' = (logErrors \/ ~ok)
  /\ UNCHANGED <<apiVars, trace_context, trace_data, nextId, frames, lstate, spawnedBy, spans, returned>>

\* every exception object a body can raise
AllErrors ==
  UNION {BodyErrors(t) : t \in TraceIds}

----------------------------------------------------------------------------
Step(l, max_spans) ==
  \/ init_trace(l, max_spans)
  \/ \E v \in ReturnValues : BodyReturns(l, v)
  \/ \E e \in AllErrors : BodyRaises(l, e)
  \/ WrapperExit(l)

Logging == \E t \in TraceIds, ok \in BOOLEAN : record_log(t, ok)

\* independent lineages run traced calls concurrently
Next ==
  \/ \E l \in Threads : Step(l, MaxSpans)
  \/ Logging

Spec == Init /\ [][Next]_vars

\* one lineage runs a traced call whose body spawns child tasks, which run
\* traced calls concurrently
NextTasks ==
  \/ \E l \in {1} \cup Tasks : Step(l, MaxTaskSpans)
  \/ \E l \in {1} \cup Tasks, c \in Tasks : Spawn(l, c)
  \/ Logging

SpecTasks == Init /\ [][NextTasks]_vars

\* one lineage alone: a single thread of control runs traced calls
NextSingle ==
  \/ Step(1, MaxSpansAlone)
  \/ Logging

SpecSingle == Init /\ [][NextSingle]_vars

----------------------------------------------------------------------------
\* Annotation: merge and trace_insert

\* trace_insert calls made in all, and traced calls made by the lineage
\* that annotates them
MaxInserts == 2
MaxAnnotatedSpans == 2
\* the same where the decorator's arguments and the inserted values range
\* over all Python values
MaxValueInserts == 1
MaxValueSpans == 1

\* collections.ChainMap(*maps): a key is looked up in the maps in order;
\* the keys are those of all the maps
ChainMapKeys(maps) == UNION {DOMAIN maps[i] : i \in 1..Len(maps)}
ChainMapGet(maps, key) ==
  LET first == CHOOSE i \in 1..Len(maps) :
                 /\ key \in DOMAIN maps[i]
                 /\ \A j \in 1..(i - 1) : key \notin DOMAIN maps[j]
  IN maps[first][key]

\* dict(chain_map)
DictOf(maps) == [key \in ChainMapKeys(maps) |-> ChainMapGet(maps, key)]

\* a merge that looks keys up in the old dict first
mergeOldFirst(old, new) ==
  IF old.t = "dict" /\ new.t = "dict"
  THEN PyDict(DictOf(<<old.v, new.v>>))
  ELSE IF old.t = "list" /\ new.t = "list"
  THEN PyList(old.v \o new.v)
  ELSE new

\* merge(old, new)
merge(old, new) ==
  IF old.t = "dict" /\ new.t = "dict"
  THEN PyDict(DictOf(<<new.v, old.v>>))
  ELSE IF old.t = "list" /\ new.t = "list"
  THEN PyList(old.v \o new.v)
  ELSE new

\* merge is called with two values and returns
MergeReturns ==
  /\ merged.pc = "called"
  /\ merged' = [merged EXCEPT !.out = merge(merged.old, merged.new), !.pc = "returned"]
  /\ UNCHANGED <<traceVars, decorator, inserted, runs, http, sent>>

InitMerge ==
  /\ InitTrace
  /\ decorator = DefaultDecorator
  /\ merged \in {[old |-> old, new |-> new, out |-> PyNone, pc |-> "called"] :
                   old \in PyValues, new \in PyValues}
  /\ runs = NoRuns
  /\ http = NoCall

SpecMerge == InitMerge /\ [][MergeReturns]_vars

\* a trace_insert that overwrites the field
InsertedValueOverwrites(existing_value, new_value) == new_value

\* a trace_insert that merges only into an empty field
InsertedValueInverted(existing_value, new_value) ==
  IF Truthy(existing_value) THEN new_value ELSE merge(existing_value, new_value)

\* merge(existing_value, new_value) if existing_value else new_value
InsertedValue(existing_value, new_value) ==
  IF Truthy(existing_value) THEN merge(existing_value, new_value) ELSE new_value

\* the data of a trace_insert call: a value for metadata, for tags, or both
InsertData ==
  {[key \in {"metadata"} |-> value] : value \in PyValues}
    \cup {[key \in {"tags"} |-> PyList(<<1>>)],
          [metadata |-> PyDict([key \in {"tokens"} |-> 3]), tags |-> PyList(<<1>>)]}

\* the data of the trace_insert calls of an annotated body
AnnotationData ==
  {[key \in {"metadata"} |-> PyDict([k \in {"internal"} |-> 1])],
   [key \in {"metadata"} |-> PyDict([k \in {"tokens"} |-> 3])],
   [key \in {"metadata"} |-> PyDict([k \in {"internal"} |-> 3])],
   [key \in {"metadata"} |-> PyDict([k \in Keys |-> 3])],
   [metadata |-> PyDict([k \in {"tokens"} |-> 1]), tags |-> PyList(<<1>>)]}

\* trace_insert(data), called by lineage l from the body of a traced call or
\* from outside any traced call
trace_insert(l, data, max_inserts) ==
  /\ Depth(l) = 0 \/ InPc(l, "body")
  /\ inserted.count < max_inserts
  /\ IF trace_context = <<>>
     THEN \* trace_context.get()[-1] raises IndexError
          /\ inserted' = [count |-> inserted.count + 1, lineage |-> l,
                          target |-> None, data |-> data, error |-> "IndexError"]
          /\ UNCHANGED trace_data
     ELSE LET current_trace_id == StackTop(trace_context)
              current_trace_data == trace_data[current_trace_id]
          IN /\ trace_data' = [trace_data EXCEPT ![current_trace_id] =
                  [key \in DOMAIN current_trace_data |->
                     IF key \in DOMAIN data
                     THEN InsertedValue(current_trace_data[key], data[key])
                     ELSE current_trace_data[key]]]
             /\ inserted' = [count |-> inserted.count + 1, lineage |-> l,
                             target |-> current_trace_id, data |-> data,
                             error |-> "none"]
  /\ UNCHANGED <<trace_context, nextId, frames, lstate, spawnedBy, logThreads,
                 logErrors, spans, returned, decorator, merged, runs, http, sent>>

\* one lineage runs traced calls and annotates them
NextAnnotate ==
  \/ Step(1, MaxAnnotatedSpans)
  \/ \E data \in AnnotationData : trace_insert(1, data, MaxInserts)

SpecAnnotate == Init /\ [][NextAnnotate]_vars

\* the metadata @traceable is given for the annotated function
Decorators == {[metadata |-> m, tags |-> PyNone] : m \in PyValues}

InitValues ==
  /\ InitTrace
  /\ decorator \in Decorators
  /\ merged = NoMerge
  /\ runs = NoRuns
  /\ http = NoCall

\* one lineage runs traced calls and inserts values of every kind into
\* fields that hold values of every kind
NextValues ==
  \/ Step(1, MaxValueSpans)
  \/ \E data \in InsertData : trace_insert(1, data, MaxValueInserts)

SpecValues == InitValues /\ [][NextValues]_vars

\* independent lineages run traced calls and annotate concurrently
NextAnnotateThreads ==
  \/ \E l \in Threads : Step(l, MaxSpans)
  \/ \E l \in Threads, data \in AnnotationData : trace_insert(l, data, MaxInserts)
  \/ Logging

SpecAnnotateThreads == Init /\ [][NextAnnotateThreads]_vars

----------------------------------------------------------------------------
\* A call graph run by one lineage, through wrapper and through async_wrapper

\* traced calls a body makes
MaxKids == 2

\* a call graph: the outcome of the body of a traced function and the
\* traced calls the body makes, one after the other, before it ends
TreeOutcomes == ReturnValues \cup {[type |-> "Exception", val |-> None]}
Leaves == {[out |-> o, kids |-> <<>>] : o \in TreeOutcomes}
Children ==
  Leaves \cup {[out |-> o, kids |-> <<leaf>>] : o \in TreeOutcomes, leaf \in Leaves}
KidLists == UNION {[1..n -> Children] : n \in 0..MaxKids}
CallGraphs == {[out |-> o, kids |-> kids] : o \in TreeOutcomes, kids \in KidLists}

\* the engine's state in a run, with the operations on the stack, the
\* child lists, the emitter and the callers in the order they happen
EmptyRun == [trace_context |-> <<>>, trace_data |-> <<>>, nextId |-> 1, events |-> <<>>]
Event(op, trace_id, info) == [op |-> op, trace_id |-> trace_id, info |-> info]

\* init_trace in a run
RunInitTrace(st) ==
  LET trace_id == st.nextId
      stack == Append(st.trace_context, trace_id)
      stored == [t \in (DOMAIN st.trace_data) \cup {trace_id} |->
                   IF t = trace_id THEN TraceLog(trace_id) ELSE st.trace_data[t]]
      parent_trace_id == ParentTraceId(stack)
  IN [trace_context |-> stack,
      trace_data |->
        IF parent_trace_id # None
        THEN [stored EXCEPT ![parent_trace_id].children = Append(@, trace_id)]
        ELSE stored,
      nextId |-> trace_id + 1,
      events |-> st.events \o <<Event("push", trace_id, <<>>)>> \o
        (IF parent_trace_id # None
         THEN <<Event("link", parent_trace_id, <<trace_id>>)>>
         ELSE <<>>)]

\* cleanup_trace in a run
RunCleanupTrace(st, trace_id) ==
  [st EXCEPT
     !.events = @ \o <<Event("emit", trace_id, <<st.trace_data[trace_id]>>),
                       Event("pop", StackTop(st.trace_context), <<>>)>>,
     !.trace_context = Pop(@)]

\* the try and except clauses of wrapper, the body having ended with out
SyncTry(data, trace_id, out) ==
  IF out \in ReturnValues
  THEN LET output == Flatten(out)
       IN IF Serializable(output)
          THEN [trace_data |-> [data EXCEPT ![trace_id].end_timestamp = "ts",
                                            ![trace_id].output = JsonDumps(output)],
                exc |-> NoValue, result |-> out]
          ELSE [trace_data |-> [data EXCEPT ![trace_id].end_timestamp = "ts"],
                exc |-> ExceptClause([type |-> "TypeError", val |-> trace_id]),
                result |-> out]
  ELSE [trace_data |-> data, exc |-> ExceptClause(out), result |-> NoValue]

\* an async_wrapper that leaves end_timestamp unset
AsyncTryNoTimestamp(data, trace_id, out) ==
  IF out \in ReturnValues
  THEN LET output == Flatten(out)
       IN IF Serializable(output)
          THEN [trace_data |-> [data EXCEPT ![trace_id].output = JsonDumps(output)],
                exc |-> NoValue, result |-> out]
          ELSE [trace_data |-> data,
                exc |-> ExceptClause([type |-> "TypeError", val |-> trace_id]),
                result |-> out]
  ELSE [trace_data |-> data, exc |-> ExceptClause(out), result |-> NoValue]

\* the try and except clauses of async_wrapper
AsyncTry(data, trace_id, out) ==
  IF out \in ReturnValues
  THEN LET output == Flatten(out)
       IN IF Serializable(output)
          THEN [trace_data |-> [data EXCEPT ![trace_id].end_timestamp = "ts",
                                            ![trace_id].output = JsonDumps(output)],
                exc |-> NoValue, result |-> out]
          ELSE [trace_data |-> [data EXCEPT ![trace_id].end_timestamp = "ts"],
                exc |-> ExceptClause([type |-> "TypeError", val |-> trace_id]),
                result |-> out]
  ELSE [trace_data |-> data, exc |-> ExceptClause(out), result |-> NoValue]

\* the finally clause and what leaves the wrapper
RunExit(st, trace_id, tried) ==
  LET cleaned == RunCleanupTrace([st EXCEPT !.trace_data = tried.trace_data], trace_id)
  IN [cleaned EXCEPT !.events = Append(@,
        IF tried.exc # NoValue
        THEN Event("raise", trace_id, <<tried.exc>>)
        ELSE Event("return", trace_id, <<tried.result>>))]

RECURSIVE wrapper(_, _), SyncBody(_, _), async_wrapper(_, _), AsyncBody(_, _)

\* the body calls its traced functions in turn
SyncBody(kids, st) ==
  IF kids = <<>> THEN st ELSE SyncBody(Tail(kids), wrapper(Head(kids), st))

\* wrapper(*args, **kwargs)
wrapper(graph, st) ==
  LET trace_id == st.nextId
      body == SyncBody(graph.kids, RunInitTrace(st))
  IN RunExit(body, trace_id, SyncTry(body.trace_data, trace_id, graph.out))

\* the body awaits its traced coroutine functions in turn
AsyncBody(kids, st) ==
  IF kids = <<>> THEN st ELSE AsyncBody(Tail(kids), async_wrapper(Head(kids), st))

\* await async_wrapper(*args, **kwargs)
async_wrapper(graph, st) ==
  LET trace_id == st.nextId
      body == AsyncBody(graph.kids, RunInitTrace(st))
  IN RunExit(body, trace_id, AsyncTry(body.trace_data, trace_id, graph.out))

RunSync ==
  /\ runs.sync = <<>>
  /\ runs' = [runs EXCEPT !.sync = <<wrapper(runs.graph, EmptyRun)>>]
  /\ UNCHANGED <<traceVars, decorator, inserted, merged, http, sent>>

RunAsync ==
  /\ runs.async = <<>>
  /\ runs' = [runs EXCEPT !.async = <<async_wrapper(runs.graph, EmptyRun)>>]
  /\ UNCHANGED <<traceVars, decorator, inserted, merged, http, sent>>

InitRuns ==
  /\ InitTrace
  /\ decorator = DefaultDecorator
  /\ merged = NoMerge
  /\ runs \in {[graph |-> graph, sync |-> <<>>, async |-> <<>>] : graph \in CallGraphs}
  /\ http = NoCall

NextRuns == RunSync \/ RunAsync

SpecRuns == InitRuns /\ [][NextRuns]_vars

----------------------------------------------------------------------------
\* HTTPClient.request / request_async under retry_on_502

MAX_RETRIES == 5

\* the backoff before the attempt after `retry`, in units of BACKOFF_FACTOR
Backoff(retry) == 2^retry

\* what an attempt meets: a response with a status, or no response at all
\* (a transport error such as a timeout, which is no HTTPStatusError)
TransportError == 0
Responses == {200, 404, 500, 502, TransportError}

\* response.raise_for_status() raises HTTPStatusError for 4xx and 5xx
IsErrorStatus(status) == status >= 400

\* the calls the clients make: the method's kind and its endpoint
Calls ==
  {[kind |-> "sync", endpoint |-> e] :
     e \in {"/completion", "/deployed-prompt", "/feedback", "/trace_log"}}
    \cup {[kind |-> "async", endpoint |-> e] :
            e \in {"/completion", "/deployed-prompt", "/feedback"}}

\* an except clause that gives up one retry late
GivesUpLate(status, retry) == status # 502 \/ retry = MAX_RETRIES

\* if e.response.status_code != 502 or retry == MAX_RETRIES - 1: raise
GivesUp(status, retry) == status # 502 \/ retry = MAX_RETRIES - 1

\* one pass of `for retry in range(MAX_RETRIES)`: the wrapped request is
\* made and meets the response `status`
Attempt(status) ==
  /\ http.pc = "loop"
  /\ http.retry < MAX_RETRIES
  /\ http' =
       LET made == [http EXCEPT !.statuses = Append(@, status)]
       IN IF status = TransportError
          THEN [made EXCEPT !.pc = "raised", !.result = status]
          ELSE IF ~IsErrorStatus(status)
          THEN [made EXCEPT !.pc = "returned", !.result = status]
          ELSE IF GivesUp(status, http.retry)
          THEN [made EXCEPT !.pc = "raised", !.result = status]
          ELSE [made EXCEPT !.pc = "sleeping"]
  /\ UNCHANGED <<traceVars, decorator, inserted, merged, runs, sent>>

\* time.sleep / await asyncio.sleep of BACKOFF_FACTOR * (2**retry), then the
\* next pass of the loop, or the end of the loop and of the function
Sleep ==
  /\ http.pc = "sleeping"
  /\ http' = [http EXCEPT
       !.slept = @ + Backoff(http.retry),
       !.retry = @ + 1,
       !.pc = IF http.retry + 1 < MAX_RETRIES THEN "loop" ELSE "returned",
       !.result = IF http.retry + 1 < MAX_RETRIES THEN @ ELSE None]
  /\ UNCHANGED <<traceVars, decorator, inserted, merged, runs, sent>>

InitRetry ==
  /\ InitTrace
  /\ decorator = DefaultDecorator
  /\ merged = NoMerge
  /\ runs = NoRuns
  /\ http \in {[kind |-> c.kind, endpoint |-> c.endpoint, pc |-> "loop", retry |-> 0,
               statuses |-> <<>>, slept |-> 0, result |-> 0] : c \in Calls}

NextRetry ==
  \/ \E status \in Responses : Attempt(status)
  \/ Sleep

\* a call in progress goes on: an attempt ends with a response or an
\* error (the clients have a timeout), and a sleep ends
SpecRetry == InitRetry /\ [][NextRetry]_vars /\ WF_vars(NextRetry)

----------------------------------------------------------------------------
\* Parea.completion / Parea.acompletion

\* completion calls made in all
MaxCompletions == 2

\* completion(data): data.inference_id = trace_context.get()[-1], then the
\* POST to COMPLETION_ENDPOINT, which gives a response or raises
completion(l, ok) ==
  /\ Depth(l) = 0 \/ InPc(l, "body")
  /\ sent.count < MaxCompletions
  /\ sent' =
       IF trace_context = <<>>
       THEN [count |-> sent.count + 1, lineage |-> l, op |-> "completion",
             error |-> "IndexError", inference_id |-> None, trace_id |-> None,
             posted |-> FALSE]
       ELSE [count |-> sent.count + 1, lineage |-> l, op |-> "completion",
             error |-> IF ok THEN "none" ELSE "HTTPStatusError",
             inference_id |-> StackTop(trace_context), trace_id |-> None,
             posted |-> TRUE]
  /\ UNCHANGED <<traceVars, decorator, inserted, merged, runs, http>>

\* acompletion(data): trace_id = trace_context.get()[-1];
\* data.trace_id = trace_id, then the POST
acompletion(l, ok) ==
  /\ Depth(l) = 0 \/ InPc(l, "body")
  /\ sent.count < MaxCompletions
  /\ sent' =
       IF trace_context = <<>>
       THEN [count |-> sent.count + 1, lineage |-> l, op |-> "acompletion",
             error |-> "IndexError", inference_id |-> None, trace_id |-> None,
             posted |-> FALSE]
       ELSE [count |-> sent.count + 1, lineage |-> l, op |-> "acompletion",
             error |-> IF ok THEN "none" ELSE "HTTPStatusError",
             inference_id |-> None, trace_id |-> StackTop(trace_context),
             posted |-> TRUE]
  /\ UNCHANGED <<traceVars, decorator, inserted, merged, runs, http>>

\* independent lineages run traced calls whose bodies ask for completions
NextCompletion ==
  \/ \E l \in Threads : Step(l, MaxSpans)
  \/ \E l \in Threads, ok \in BOOLEAN : completion(l, ok)
  \/ \E l \in Threads, ok \in BOOLEAN : acompletion(l, ok)
  \/ Logging

SpecCompletion == Init /\ [][NextCompletion]_vars

----------------------------------------------------------------------------
\* Properties

Range(seq) == {seq[i] : i \in 1..Len(seq)}
Records == DOMAIN trace_data
IsError(v) == v.type \in {"Exception", "CancelledError", "TypeError"}
IsValue(v) == v \in ReturnValues

\* the independent lineage a lineage descends from
RECURSIVE Family(_)
Family(l) == IF spawnedBy[l] = None THEN l ELSE Family(spans[spawnedBy[l]].lineage)

\* C1: no record's children list contains the trace_id of a span entered in
\* a different independent lineage
C1_Isolation ==
  \A a \in Records : \A b \in Range(trace_data[a].children) :
    Family(spans[b].lineage) = Family(spans[a].lineage)

\* the root spans of the child lineages spawned from the body of span p
SpawnedSpans(p) ==
  {t \in Records : spans[t].caller = None /\ spawnedBy[spans[t].lineage] = p}

\* C2: the span a spawned child lineage enters is recorded as a direct child
\* of the span that spawned the lineage, and of no other span
C2_SiblingsUnderParent ==
  \A p \in Records : \A t \in SpawnedSpans(p) :
    /\ t \in Range(trace_data[p].children)
    /\ \A s \in Records \ {p} : t \notin Range(trace_data[s].children)

\* the spans of a run are nested one in another: no two at the same depth
PureNesting ==
  \A a \in Records : \A b \in Records : a # b => spans[a].depth # spans[b].depth

\* C3: once the outermost of N nested traced calls of a lineage has returned,
\* there are exactly N records, the record at each depth but the last has
\* exactly one child, the span one deeper, the innermost has none, and the
\* context stack is empty
C3_BalanceNested ==
  (lstate[1] = "done" /\ PureNesting) =>
    /\ trace_context = <<>>
    /\ \A t \in Records :
         /\ spans[t].depth \in 1..Cardinality(Records)
         /\ \A u \in Records : spans[u].depth = spans[t].depth + 1 =>
              trace_data[t].children = <<u>>
         /\ spans[t].depth = Cardinality(Records) => trace_data[t].children = <<>>

C3_Witness ==
  /\ lstate[1] = "done"
  /\ PureNesting
  /\ Cardinality(Records) = MaxDepth
  /\ \E t \in Records : Len(trace_data[t].children) = 1

\* C4: while the body of a traced call runs (entered, not exited, no traced
\* call or task of its own active), the top of the context stack is the
\* call's own trace_id
C4_TopOfStack ==
  \A l \in Lineages :
    (InPc(l, "body") /\ Outstanding(Top(l).trace_id) = {}) =>
      /\ trace_context # <<>>
      /\ StackTop(trace_context) = Top(l).trace_id

\* C5: the exit of a traced call pops the call's own trace_id and leaves the
\* stack equal to the stack the call found on entry
C5_GuaranteedRelease ==
  \A l \in Lineages :
    InPc(l, "exit") =>
      /\ Top(l).popped = Top(l).trace_id
      /\ Top(l).post = Top(l).pre

\* C6: in a lineage alone, the children list of a span that has exited is
\* the sequence of the traced calls entered directly from its body, in the
\* order they were entered
C6_ChildrenList ==
  \A t \in Records :
    logThreads[t] # "none" => trace_data[t].children = spans[t].calls

\* parent calls child1, then child2, which calls grandchild
C6_Witness ==
  /\ lstate[1] = "done"
  /\ \E p \in Records, c1 \in Records, c2 \in Records, g \in Records :
       /\ trace_data[p].children = <<c1, c2>>
       /\ trace_data[c2].children = <<g>>
       /\ trace_data[c1].children = <<>>
       /\ trace_data[g].children = <<>>

\* C7: when the body raised, the record handed to the emitter has
\* end_timestamp set and output unset
C7_TimestampOnFailure ==
  \A l \in Lineages :
    (InPc(l, "exit") /\ IsError(Top(l).body)) =>
      /\ trace_data[Top(l).trace_id].end_timestamp # NoneStr
      /\ trace_data[Top(l).trace_id].output = NoneStr

\* C8: when the body raised E, the caller of the traced call observes E
\* itself, raised, after the hand-off to the emitter and the pop
C8_ErrorTransparency ==
  IsError(returned.body) =>
    /\ returned.kind = "raise"
    /\ returned.saw = returned.body
    /\ returned.cleaned

C8_Witness ==
  /\ IsError(returned.body)
  /\ returned.kind = "raise"
  /\ \E l \in Lineages : Depth(l) > 0 /\ Top(l).caught = returned.saw

\* C9: a traced call raises only what its body raised, and when the body
\* returned a value the traced call returns that value
C9_PropagationPolicy ==
  /\ returned.kind = "raise" => (IsError(returned.body) /\ returned.saw = returned.body)
  /\ IsValue(returned.body) => (returned.kind = "return" /\ returned.saw = returned.body)

\* the exit of a traced call is never held back, whatever the logging thread
\* of its span is doing
ExitNeverWaits ==
  \A l \in Lineages : InPc(l, "exit") => ENABLED WrapperExit(l)

\* the step that hands a record to the emitter leaves its logging thread
\* started, with record_log not run
HandOffOnly ==
  \A l \in Lineages :
    (InPc(l, "body") /\ Depth(l)' = Depth(l) /\ InPc(l, "exit")') =>
      /\ logThreads'[Top(l).trace_id] = "started"
      /\ logErrors' = logErrors

\* C10: the exit of a traced call does not wait for record_log: the hand-off
\* only starts the logging thread, and the return to the caller is enabled
\* whether or not record_log has run
C10_NonBlockingEmission == [](ExitNeverWaits) /\ [][HandOffOnly]_vars

\* a traced call has returned to its caller and record_log for its span has
\* not finished
C10_Witness ==
  /\ returned.trace_id # None
  /\ logThreads[returned.trace_id] = "started"

\* the step in which record_log fails for the record of span t
LogFailureStep(t) ==
  /\ logThreads[t] = "started"
  /\ logThreads'[t] = "ended"
  /\ ~logErrors
  /\ logErrors'

\* a failure of record_log leaves alone the wrappers, what their callers
\* are about to get or have got, and the stack, which the span's cleanup
\* has popped by then
FailureContained ==
  \A t \in TraceIds :
    LogFailureStep(t) =>
      /\ frames' = frames
      /\ returned' = returned
      /\ trace_context' = trace_context
      /\ \A l \in Lineages : \A i \in 1..Depth(l) :
           frames[l][i].trace_id = t =>
             (frames[l][i].pc = "exit" /\ frames[l][i].popped # None)

\* no caller of a traced call ever gets the error of the log sink
NoSinkErrorSeen ==
  /\ returned.saw # LogSinkError
  /\ \A l \in Lineages : \A i \in 1..Depth(l) :
       frames[l][i].exc # LogSinkError /\ frames[l][i].caught # LogSinkError

\* C11: a failure of record_log for a span's record is never raised to the
\* caller of the traced call: the outcome the wrapper holds for its caller
\* and the popped stack are as they were
C11_EmissionFailureContained == [](NoSinkErrorSeen) /\ [][FailureContained]_vars

\* record_log failed for the only span there is, and the caller of that
\* span got the value its body returned
C11_Witness ==
  /\ logErrors
  /\ nextId = 2
  /\ logThreads[1] = "ended"
  /\ returned.trace_id = 1
  /\ returned.kind = "return"
  /\ returned.saw = returned.body
  /\ trace_context = <<>>

\* a step that is a trace_insert call
InsertStep == inserted'.count = inserted.count + 1

\* what a trace_insert call that found a span leaves alone, and what it
\* does to the metadata of that span
AnnotatesActiveSpanOnly ==
  (InsertStep /\ inserted'.error = "none") =>
    LET l == inserted'.lineage
        t == inserted'.target
        data == inserted'.data
    IN /\ InPc(l, "body") /\ t = Top(l).trace_id
       /\ DOMAIN trace_data' = DOMAIN trace_data
       /\ \A u \in Records \ {t} : trace_data'[u] = trace_data[u]
       /\ \A key \in (DOMAIN trace_data[t]) \ (DOMAIN data) :
            trace_data'[t][key] = trace_data[t][key]
       /\ ("metadata" \in DOMAIN data /\ data.metadata.t = "dict") =>
            LET old == trace_data[t].metadata
                new == trace_data'[t].metadata
            IN /\ new.t = "dict"
               /\ DOMAIN data.metadata.v \subseteq DOMAIN new.v
               /\ old.t = "dict" => DOMAIN old.v \subseteq DOMAIN new.v
               /\ DOMAIN new.v \subseteq
                    (DOMAIN data.metadata.v) \cup
                      (IF old.t = "dict" THEN DOMAIN old.v ELSE {})

\* C12: trace_insert changes the fields it is given of the record of the
\* caller's innermost active span and nothing else, and a metadata mapping
\* it is given adds its keys to the keys the metadata already had
C12_AnnotatesActiveSpanOnly == [][AnnotatesActiveSpanOnly]_vars

\* a nested span whose body inserted metadata with the key "internal" and
\* then metadata with the key "tokens" holds both, and its parent holds none
C12_Witness ==
  /\ inserted.count = 2
  /\ inserted.target = 2
  /\ DOMAIN inserted.data = {"metadata"}
  /\ DOMAIN inserted.data.metadata.v = {"tokens"}
  /\ InPc(1, "body") /\ Depth(1) = 2 /\ Top(1).trace_id = 2
  /\ trace_data[2].metadata = PyDict([k \in Keys |-> IF k = "internal" THEN 1 ELSE 3])
  /\ trace_data[1].metadata = PyNone

\* C13: a trace_insert call made by a lineage that is inside no traced call
\* raises an error to its caller and changes no record, also while other
\* lineages have spans active
C13_NoActiveSpan ==
  [][(InsertStep /\ Depth(inserted'.lineage) = 0) =>
       (inserted'.error = "IndexError" /\ trace_data' = trace_data)]_vars

\* the reference result of merging an incoming value into an existing one:
\* for two mappings the union of the keys, the incoming value on a key both
\* have; for two sequences the existing one followed by the incoming one;
\* otherwise the incoming value
IsReferenceMerge(existing, incoming, out) ==
  IF existing.t = "dict" /\ incoming.t = "dict"
  THEN /\ out.t = "dict"
       /\ DOMAIN out.v = (DOMAIN existing.v) \cup (DOMAIN incoming.v)
       /\ \A key \in DOMAIN incoming.v : out.v[key] = incoming.v[key]
       /\ \A key \in (DOMAIN existing.v) \ (DOMAIN incoming.v) :
            out.v[key] = existing.v[key]
  ELSE IF existing.t = "list" /\ incoming.t = "list"
  THEN /\ out.t = "list"
       /\ Len(out.v) = Len(existing.v) + Len(incoming.v)
       /\ \A i \in 1..Len(existing.v) : out.v[i] = existing.v[i]
       /\ \A i \in 1..Len(incoming.v) : out.v[Len(existing.v) + i] = incoming.v[i]
  ELSE out = incoming

\* C14: merge returns the reference result: right-biased union of two
\* mappings, concatenation of two sequences, otherwise the incoming value
C14_MergeReference ==
  merged.pc = "returned" => IsReferenceMerge(merged.old, merged.new, merged.out)

\* merge returned for two mappings that disagree on a key they share
C14_Witness ==
  /\ merged.pc = "returned"
  /\ merged.old = PyDict([key \in Keys |-> 1])
  /\ merged.new = PyDict([key \in {"tokens"} |-> 3])
  /\ merged.out = PyDict([key \in Keys |-> IF key = "tokens" THEN 3 ELSE 1])

\* C15: for the same call graph and outcomes, run without concurrent
\* siblings, wrapper and async_wrapper go through the same pushes, child
\* links, emissions, pops and returns and leave the same records
C15_SyncAsyncSymmetry ==
  (runs.sync # <<>> /\ runs.async # <<>>) => runs.sync = runs.async

\* both wrappers ran a parent with two children, the first with a child of
\* its own, and left the parent with both children in call order
C15_Witness ==
  /\ runs.sync # <<>> /\ runs.async # <<>>
  /\ Len(runs.graph.kids) = 2
  /\ Len(runs.graph.kids[1].kids) = 1
  /\ runs.graph.out \in ReturnValues
  /\ runs.async[1].trace_data[1].children = <<2, 4>>
  /\ runs.async[1].trace_data[2].children = <<3>>
  /\ runs.async[1].trace_context = <<>>
  /\ Len(runs.async[1].events) = 19

\* the span t is in its body: its wrapper has not reached the finally clause
InBody(t) ==
  \E l \in Lineages : \E i \in 1..Depth(l) :
    frames[l][i].trace_id = t /\ frames[l][i].pc = "body"

\* a span's record is with the emitter if and only if the span has exited
EmittedOnExit ==
  \A t \in TraceIds : t < nextId => (logThreads[t] = "none" <=> InBody(t))

\* the step in which a span exits hands over that span's record, no other,
\* and pops the stack; no other step hands over any record, and a record
\* handed over is not handed over again
EmittedOnce ==
  /\ \A t \in TraceIds :
       (InBody(t) /\ ~InBody(t)') =>
         /\ logThreads[t] = "none" /\ logThreads'[t] = "started"
         /\ \A u \in TraceIds \ {t} : logThreads'[u] = logThreads[u]
         /\ trace_context' = Pop(trace_context)
  /\ \A t \in TraceIds :
       /\ (logThreads[t] = "none" /\ logThreads'[t] # "none") =>
            (InBody(t) /\ ~InBody(t)')
       /\ logThreads[t] = "started" => logThreads'[t] \in {"started", "ended"}
       /\ logThreads[t] = "ended" => logThreads'[t] = "ended"

C17_ImmutableOnceEmitted ==
  [][\A t \in Records : logThreads[t] # "none" => trace_data'[t] = trace_data[t]]_vars

\* a trace_insert call leaves in every field it is given the merge of the
\* value the field had and the value given
InsertIsMerge ==
  (InsertStep /\ inserted'.error = "none") =>
    LET t == inserted'.target
        data == inserted'.data
    IN \A key \in DOMAIN data :
         trace_data'[t][key] = merge(trace_data[t][key], data[key])

\* C18: whatever value a field holds, None or an empty mapping, an empty
\* sequence, zero or an empty string included, trace_insert leaves in it
\* what merge returns for that value and the inserted one
C18_InsertIsMerge == [][InsertIsMerge]_vars

\* a mapping was inserted into metadata that was an empty mapping
C18_Witness ==
  /\ inserted.count = 1
  /\ inserted.error = "none"
  /\ decorator.metadata = PyDict([key \in {} |-> 1])
  /\ ~Truthy(decorator.metadata)
  /\ inserted.data = [key \in {"metadata"} |-> PyDict([k \in {"internal"} |-> 1])]
  /\ trace_data[inserted.target].metadata = PyDict([k \in {"internal"} |-> 1])

\* what a call that is over has done: at most MAX_RETRIES attempts, every
\* attempt but the last met status 502, and the last one is what the call
\* ends with: the response if it succeeded, else the error
RetryBounded ==
  LET n == Len(http.statuses)
  IN /\ n <= MAX_RETRIES
     /\ \A i \in 1..(n - 1) : http.statuses[i] = 502
     /\ http.pc \in {"loop", "sleeping"} =>
          (n < MAX_RETRIES /\ \A i \in 1..n : http.statuses[i] = 502)
     /\ http.pc = "returned" =>
          (n >= 1 /\ http.statuses[n] = 200 /\ http.result = 200)
     /\ http.pc = "raised" =>
          /\ n >= 1 /\ http.result = http.statuses[n]
          /\ http.statuses[n] # 200
          /\ http.statuses[n] = 502 => n = MAX_RETRIES

\* the call is over
RetryOver == http.pc \in {"returned", "raised"}

\* C19: HTTPClient.request and request_async make at most five attempts, a
\* further one only after status 502, return the first success, raise any
\* other error and the fifth 502, and always come to an end
C19_BoundedRetry == [](RetryBounded) /\ <>(RetryOver)

\* a call met 502 four times, backed off each time, and succeeded at the
\* fifth attempt
C19_Witness ==
  /\ http.pc = "returned"
  /\ http.kind = "async"
  /\ http.statuses = <<502, 502, 502, 502, 200>>
  /\ http.slept = 15

\* a step that is a call of completion or acompletion
CompletionStep == sent'.count = sent.count + 1

\* the trace id a completion call put on its request
Stamped(request) ==
  IF request.op = "completion" THEN request.inference_id ELSE request.trace_id

\* C20: a completion or acompletion call made from the body of a traced call
\* posts its request with the trace_id of the caller's innermost active
\* span, whatever other lineages do; made with no span active it raises an
\* error and posts nothing
C20_CompletionStamping ==
  [][CompletionStep =>
       LET l == sent'.lineage
       IN IF InPc(l, "body")
          THEN sent'.posted /\ Stamped(sent') = Top(l).trace_id
          ELSE sent'.error = "IndexError" /\ ~sent'.posted]_vars

====
